---- MODULE Spec2Model ----
(***************************************************************************)
(* PayShield AI backend: the relational entity model (models.py), the      *)
(* Redis cache client (cache.py), the database session helpers             *)
(* (database.py) and the application lifespan (main.py).                   *)
(***************************************************************************)
EXTENDS Integers, Sequences, FiniteSets, TLC

(***************************************************************************)
(* Bounds of the model.                                                    *)
(***************************************************************************)
MaxUsers == 1
MaxTransactions == 1
MaxChildRows == 1
MaxAuditLogs == 1
\* cache.py: concurrent callers, largest TTL passed, and the largest integer
\* the store's INCR accepts before it reports an overflow
NumCallers == 2
MaxTtl == 2
MaxCount == 3
\* database.py: sessions in use at once, and commits a caller makes in one use
MaxSessions == 1
MaxCommits == 1
\* middleware.py: the longest a request takes, in ticks of time.time()
MaxElapsed == 1
\* schemas.py: passwords are a core of up to MaxCoreLen characters of any
\* class followed by up to MaxPad lowercase letters
MaxCoreLen == 2
MaxPad == 8

VARIABLES
    \* models.py: the five tables
    users, transactions, alerts, feedback, audit_logs,
    \* outcome of the last persistence operation on the tables
    ormResult,
    \* cache.py: the module global _redis_client and the progress of init_cache
    redis_client, initCache,
    \* the key-value store behind the client, and its content at the start
    store, store0,
    \* for each key, the value a caller passed to the set_cache call that wrote
    \* the entry now in the store (None when the key holds no such entry)
    written,
    \* the coroutines running cache functions, one record per caller
    calls,
    \* database.py: the module globals _engine and _async_session_maker
    engine, async_session_maker,
    \* the uses of get_db and get_db_context, one record per user
    sessions,
    \* main.py: the import of the module and the lifespan of the application
    lifespan,
    \* middleware.py, exceptions.py: the request passing through the application
    http,
    \* schemas.py: a request body under validation
    form

ormVars == <<users, transactions, alerts, feedback, audit_logs, ormResult>>
cacheVars == <<redis_client, initCache, store, store0, written, calls>>

dbVars == <<engine, async_session_maker, sessions>>
appVars == <<lifespan>>
httpVars == <<http>>
schemaVars == <<form>>

nonOrmVars == <<cacheVars, dbVars, appVars, httpVars, schemaVars>>
nonCacheVars == <<ormVars, dbVars, appVars, httpVars, schemaVars>>
nonDbVars == <<ormVars, cacheVars, appVars, httpVars, schemaVars>>
nonHttpVars == <<ormVars, cacheVars, dbVars, appVars, schemaVars>>
nonSchemaVars == <<ormVars, cacheVars, dbVars, appVars, httpVars>>

vars == <<ormVars, cacheVars, dbVars, appVars, httpVars, schemaVars>>

(***************************************************************************)
(* models.py                                                               *)
(***************************************************************************)
\* A NULL foreign key; primary keys are positive
NULL == 0

UserIds == 1..MaxUsers
TransactionIds == 1..MaxTransactions
AlertIds == 1..MaxChildRows
FeedbackIds == 1..MaxChildRows
AuditLogIds == 1..MaxAuditLogs

\* A nullable reference to users.id
UserRef == UserIds \cup {NULL}

\* Primary keys are uuid4 defaults: a new row gets an identifier no live row has.
NewId(ids, live) == CHOOSE i \in ids \ live : \A j \in ids \ live : i <= j

Ids(table) == {row.id : row \in table}

\* class User; only the primary key takes part in the relationships
CreateUser ==
    /\ UserIds \ users # {}
    /\ users' = users \cup {NewId(UserIds, users)}
    /\ ormResult' = [op |-> "create", ok |-> TRUE, children |-> 0]
    /\ UNCHANGED <<transactions, alerts, feedback, audit_logs, nonOrmVars>>

\* class Transaction; user_id is a plain column, no foreign key
CreateTransaction ==
    /\ TransactionIds \ transactions # {}
    /\ transactions' = transactions \cup {NewId(TransactionIds, transactions)}
    /\ ormResult' = [op |-> "create", ok |-> TRUE, children |-> 0]
    /\ UNCHANGED <<users, alerts, feedback, audit_logs, nonOrmVars>>

\* class Alert: transaction_id NOT NULL REFERENCES transactions, resolved_by
\* nullable REFERENCES users. (sent_to, the other nullable reference to users,
\* has no relationship and no ON DELETE rule, exactly like
\* Feedback.reviewer_id, which stands for both.)
CreateAlert ==
    /\ AlertIds \ Ids(alerts) # {}
    /\ \E t \in transactions, r \in users \cup {NULL} :
        alerts' = alerts \cup {[id |-> NewId(AlertIds, Ids(alerts)),
                                transaction_id |-> t, resolved_by |-> r]}
    /\ ormResult' = [op |-> "create", ok |-> TRUE, children |-> 0]
    /\ UNCHANGED <<users, transactions, feedback, audit_logs, nonOrmVars>>

\* class Feedback: transaction_id NOT NULL REFERENCES transactions, reviewer_id
\* nullable REFERENCES users
CreateFeedback ==
    /\ FeedbackIds \ Ids(feedback) # {}
    /\ \E t \in transactions, r \in users \cup {NULL} :
        feedback' = feedback \cup {[id |-> NewId(FeedbackIds, Ids(feedback)),
                                    transaction_id |-> t, reviewer_id |-> r]}
    /\ ormResult' = [op |-> "create", ok |-> TRUE, children |-> 0]
    /\ UNCHANGED <<users, transactions, alerts, audit_logs, nonOrmVars>>

\* class AuditLog: user_id nullable REFERENCES users ON DELETE SET NULL
CreateAuditLog ==
    /\ AuditLogIds \ Ids(audit_logs) # {}
    /\ \E u \in users \cup {NULL} :
        audit_logs' = audit_logs \cup {[id |-> NewId(AuditLogIds, Ids(audit_logs)),
                                        user_id |-> u]}
    /\ ormResult' = [op |-> "create", ok |-> TRUE, children |-> 0]
    /\ UNCHANGED <<users, transactions, alerts, feedback, nonOrmVars>>

\* Rows whose foreign key to users has no ON DELETE rule and no relationship on
\* User: the database refuses to delete a user they reference.
ReviewedBy(u) == {f \in feedback : f.reviewer_id = u}
\* User.alerts_resolved
ResolvedBy(u) == {a \in alerts : a.resolved_by = u}
\* User.audit_logs
AuditLogsOf(u) == {l \in audit_logs : l.user_id = u}

\* audit_logs.user_id ... ForeignKey("users.id", ondelete="SET NULL")
AuditLogsSetNull(u) ==
    {IF l.user_id = u THEN [l EXCEPT !.user_id = NULL] ELSE l : l \in audit_logs}

\* User.audit_logs = relationship(..., cascade="all, delete-orphan"): what the
\* unit of work does to the user's audit rows when the user is deleted.
UserAuditLogsCascade(u) == audit_logs \ AuditLogsOf(u)

\* session.delete(user) and flush. The unit of work deletes the rows of
\* User.audit_logs (delete cascade), nulls resolved_by on User.alerts_resolved
\* (no delete cascade) and deletes the user; feedback.reviewer_id is checked by
\* the database.
DeleteUserOrm(u) ==
    /\ u \in users
    /\ UNCHANGED nonOrmVars
    /\ IF ReviewedBy(u) # {}
       THEN /\ ormResult' = [op |-> "delete_user", ok |-> FALSE, children |-> 0]
            /\ UNCHANGED <<users, transactions, alerts, feedback, audit_logs>>
       ELSE /\ users' = users \ {u}
            /\ audit_logs' = UserAuditLogsCascade(u)
            /\ alerts' = {IF a.resolved_by = u THEN [a EXCEPT !.resolved_by = NULL] ELSE a
                            : a \in alerts}
            /\ ormResult' = [op |-> "delete_user", ok |-> TRUE,
                             children |-> Cardinality(AuditLogsOf(u))]
            /\ UNCHANGED <<transactions, feedback>>

\* DELETE FROM users WHERE id = u, with no unit of work: only the foreign keys'
\* ON DELETE rules act.
DeleteUserSql(u) ==
    /\ u \in users
    /\ UNCHANGED nonOrmVars
    /\ IF ReviewedBy(u) # {} \/ ResolvedBy(u) # {}
       THEN /\ ormResult' = [op |-> "delete_user_sql", ok |-> FALSE, children |-> 0]
            /\ UNCHANGED <<users, transactions, alerts, feedback, audit_logs>>
       ELSE /\ users' = users \ {u}
            /\ audit_logs' = AuditLogsSetNull(u)
            /\ ormResult' = [op |-> "delete_user_sql", ok |-> TRUE,
                             children |-> Cardinality(AuditLogsOf(u))]
            /\ UNCHANGED <<transactions, alerts, feedback>>

AlertsOf(t) == {a \in alerts : a.transaction_id = t}
FeedbackOf(t) == {f \in feedback : f.transaction_id = t}

\* a delete that leaves the children of the transaction in place
TransactionAlertsKept(t) == alerts

\* Transaction.alerts = relationship(..., cascade="all, delete-orphan") and
\* alerts.transaction_id ON DELETE CASCADE
TransactionAlertsCascade(t) == alerts \ AlertsOf(t)

\* Transaction.feedback = relationship(..., cascade="all, delete-orphan") and
\* feedback.transaction_id ON DELETE CASCADE
TransactionFeedbackCascade(t) == feedback \ FeedbackOf(t)

\* session.delete(transaction) and flush, or DELETE FROM transactions: the
\* relationship cascade and the foreign keys' ON DELETE CASCADE agree.
DeleteTransaction(t) ==
    /\ t \in transactions
    /\ transactions' = transactions \ {t}
    /\ alerts' = TransactionAlertsCascade(t)
    /\ feedback' = TransactionFeedbackCascade(t)
    /\ ormResult' = [op |-> "delete_transaction", ok |-> TRUE,
                     children |-> Cardinality(AlertsOf(t)) + Cardinality(FeedbackOf(t))]
    /\ UNCHANGED <<users, audit_logs, nonOrmVars>>

\* session.delete(alert): a leaf row
DeleteAlert(a) ==
    /\ a \in alerts
    /\ alerts' = alerts \ {a}
    /\ ormResult' = [op |-> "delete_child", ok |-> TRUE, children |-> 0]
    /\ UNCHANGED <<users, transactions, feedback, audit_logs, nonOrmVars>>

(***************************************************************************)
(* cache.py                                                                *)
(***************************************************************************)
Callers == 1..NumCallers
\* constants.py: CACHE_KEY_PREDICTION and CACHE_KEY_RATE_LIMIT, one key of each,
\* in the order the store's SCAN visits them
PredKey == "pred:h1"
RateLimitKey == "rate_limit:u1:minute"
KeySlots == <<PredKey, RateLimitKey>>
Keys == {KeySlots[i] : i \in 1..Len(KeySlots)}
\* the keys increment_counter is used on
CounterKeys == {RateLimitKey}
Ttls == 1..MaxTtl
\* ttl_seconds: Optional[int] = None, which "if ttl_seconds" treats like 0
NoTtl == 0

\* What the store's TTL command answers: -2 for a key that does not exist, -1
\* for a key with no expiry, the remaining seconds otherwise.
TtlMissing == -2
TtlNone == -1
Missing == [val |-> "", ttl |-> TtlMissing]
Exists(k) == store[k].ttl # TtlMissing

\* Python values, by type: n holds an int or a bool (0/1), s a str or the JSON
\* text of a list or dict.
PyVal(type, n, s) == [type |-> type, n |-> n, s |-> s]
PyNone == PyVal("None", 0, "")
PyBool(b) == PyVal("bool", IF b THEN 1 ELSE 0, "")
PyInt(n) == PyVal("int", n, "")
PyStr(s) == PyVal("str", 0, s)
PyList(s) == PyVal("list", 0, s)
PyDict(s) == PyVal("dict", 0, s)
PyRedis == PyVal("Redis", 0, "")
\* a dict holding a set, which json.dumps refuses (TypeError)
UnserialisableDict == PyDict("{'a': {1}}")

\* The store keeps strings (decode_responses=True); an integer is kept as its
\* decimal text.
IsIntText(text) == \E n \in 0..MaxCount : ToString(n) = text
IntOf(text) == CHOOSE n \in 0..MaxCount : ToString(n) = text

NoResult == [kind |-> "none", val |-> PyNone, exc |-> ""]
Return(v) == [kind |-> "return", val |-> v, exc |-> ""]
Raise(e) == [kind |-> "raise", val |-> PyNone, exc |-> e]

IdleCall ==
    [op |-> "none", pc |-> "idle", key |-> "", ttl |-> NoTtl, arg |-> PyNone,
     given |-> PyNone, pattern |-> "", value |-> 0, cursor |-> 0, deleted |-> 0,
     keys |-> {}, failed |-> "", result |-> NoResult]

NewCall(op, pc) == [IdleCall EXCEPT !.op = op, !.pc = pc]

\* A call that has returned or raised: its locals are gone. failed names the
\* step that raised inside the function, "" when none did.
Finished(call, failed, result) ==
    [NewCall(call.op, "done") EXCEPT !.failed = failed, !.result = result,
                                     !.deleted = call.deleted]

CanStart(p) == calls[p].pc \in {"idle", "done"}

\* init_cache: from_url, then ping; the global is assigned before the ping
InitCacheFromUrlStep ==
    /\ initCache.pc = "idle"
    /\ \E ok \in BOOLEAN :
        IF ok
        THEN /\ redis_client' = "open"
             /\ initCache' = [called |-> TRUE, pc |-> "ping", result |-> "none"]
        ELSE /\ redis_client' = redis_client
             /\ initCache' = [called |-> TRUE, pc |-> "idle", result |-> "raised"]
    /\ UNCHANGED <<store, store0, written, calls>>

InitCachePingStep ==
    /\ initCache.pc = "ping"
    /\ \E ok \in BOOLEAN :
        initCache' = [called |-> TRUE, pc |-> "idle",
                      result |-> IF ok THEN "ok" ELSE "raised"]
    /\ UNCHANGED <<redis_client, store, store0, written, calls>>

\* close_cache: closes the client when there is one; the global keeps it
CloseCacheStep ==
    /\ redis_client # "None"
    /\ redis_client' = "closed"
    /\ UNCHANGED <<initCache, store, store0, written, calls>>

\* init_cache and close_cache called on their own
InitCacheFromUrl == InitCacheFromUrlStep /\ UNCHANGED nonCacheVars

InitCachePing == InitCachePingStep /\ UNCHANGED nonCacheVars

CloseCache == CloseCacheStep /\ UNCHANGED nonCacheVars

GetRedisUnchecked == Return(PyRedis)

\* get_redis
GetRedis ==
    IF redis_client = "None" THEN Raise("CacheException") ELSE Return(PyRedis)

\* a caller awaiting get_redis() itself
CallGetRedis(p) ==
    /\ CanStart(p)
    /\ calls' = [calls EXCEPT ![p] =
                    Finished(NewCall("get_redis", "done"),
                             IF GetRedis.kind = "raise" THEN "get_redis" ELSE "", GetRedis)]
    /\ UNCHANGED <<redis_client, initCache, store, store0, written, nonCacheVars>>

\* what is left of the written values once keys have gone from the store
LiveWritten(st) ==
    [k \in Keys |-> IF st[k].ttl = TtlMissing THEN PyNone ELSE written[k]]

\* The store's clock advances one second: TTLs run down and keys expire.
Tick ==
    /\ \E k \in Keys : store[k].ttl > 0
    /\ store' = [k \in Keys |->
                    IF store[k].ttl > 1 THEN [store[k] EXCEPT !.ttl = @ - 1]
                    ELSE IF store[k].ttl = 1 THEN Missing
                    ELSE store[k]]
    /\ written' = LiveWritten(store')
    /\ UNCHANGED <<redis_client, initCache, store0, calls, nonCacheVars>>

\* INCR: creates the key at 1 with no expiry, or adds one and keeps the TTL;
\* an error for a value that is no integer or that would overflow.
IncrAccepted(k) ==
    \/ ~Exists(k)
    \/ IsIntText(store[k].val) /\ IntOf(store[k].val) < MaxCount

\* the new value computed from a value read when the calls began
IncrValueFromSnapshot(k) ==
    IF store0[k].ttl # TtlMissing THEN IntOf(store0[k].val) + 1 ELSE 1

IncrValue(k) == IF Exists(k) THEN IntOf(store[k].val) + 1 ELSE 1

StoreAfterIncr(k) ==
    [store EXCEPT ![k] =
        IF Exists(k) THEN [@ EXCEPT !.val = ToString(IncrValue(k))]
        ELSE [val |-> "1", ttl |-> TtlNone]]

\* EXPIRE: sets the TTL of a key that exists
StoreAfterExpire(k, ttl) ==
    IF Exists(k) THEN [store EXCEPT ![k].ttl = ttl] ELSE store

NeedsExpireAlways(ttl_seconds, value) == ttl_seconds # NoTtl

\* if ttl_seconds and value == 1
NeedsExpire(ttl_seconds, value) == ttl_seconds # NoTtl /\ value = 1

IncrementExceptSwallows(call) == Return(PyInt(call.value))

\* increment_counter: except Exception as e: raise CacheException(...)
IncrementExcept(call) == Raise("CacheException")

IncrementFailed(call, step) == Finished(call, step, IncrementExcept(call))

\* increment_counter up to its first await: client = await get_redis()
StartIncrement(p, k, ttl) ==
    /\ CanStart(p)
    /\ LET call == [NewCall("increment_counter", "incr") EXCEPT !.key = k, !.ttl = ttl]
       IN  calls' = [calls EXCEPT ![p] =
                        IF GetRedis.kind = "raise" THEN IncrementFailed(call, "get_redis")
                        ELSE call]
    /\ UNCHANGED <<redis_client, initCache, store, store0, written, nonCacheVars>>

\* value = await client.incr(key), and on to the next await or the return
IncrCommand(p) ==
    /\ calls[p].op = "increment_counter"
    /\ calls[p].pc = "incr"
    /\ \E ok \in BOOLEAN :
        LET k == calls[p].key
            call == [calls[p] EXCEPT !.value = IncrValue(k)]
        IN  IF ok /\ IncrAccepted(k)
            THEN /\ store' = StoreAfterIncr(k)
                 /\ calls' = [calls EXCEPT ![p] =
                        IF NeedsExpire(call.ttl, call.value)
                        THEN [call EXCEPT !.pc = "expire"]
                        ELSE Finished(call, "", Return(PyInt(call.value)))]
            ELSE /\ store' = store
                 /\ calls' = [calls EXCEPT ![p] = IncrementFailed(calls[p], "incr")]
    /\ UNCHANGED <<redis_client, initCache, store0, written, nonCacheVars>>

\* await client.expire(key, ttl_seconds), then return value
ExpireCommand(p) ==
    /\ calls[p].op = "increment_counter"
    /\ calls[p].pc = "expire"
    /\ \E ok \in BOOLEAN :
        IF ok
        THEN /\ store' = StoreAfterExpire(calls[p].key, calls[p].ttl)
             /\ calls' = [calls EXCEPT ![p] =
                    Finished(calls[p], "", Return(PyInt(calls[p].value)))]
        ELSE /\ store' = store
             /\ calls' = [calls EXCEPT ![p] = IncrementFailed(calls[p], "expire")]
    /\ UNCHANGED <<redis_client, initCache, store0, written, nonCacheVars>>

\* What redis-py sends for a value: a str as it is, an int as its decimal text
Encode(v) == IF v.type = "int" THEN ToString(v.n) ELSE v.s

\* json.dumps of a dict or list: its JSON text, or TypeError
JsonDumpsRaises(v) == v = UnserialisableDict
JsonDumps(v) == PyStr(v.s)

ListText == "[1]"
DictText == "{\"a\": 1}"

\* json.loads, and the except that keeps the text when it is no JSON
JsonLoads(text) ==
    IF IsIntText(text) THEN PyInt(IntOf(text))
    ELSE IF text = ListText THEN PyList(text)
    ELSE IF text = DictText THEN PyDict(text)
    ELSE PyStr(text)

\* the values callers cache; "1" is a str whose text is a JSON document
CacheValues ==
    {PyStr("abc"), PyStr("1"), PyInt(1), PyList(ListText), PyDict(DictText),
     UnserialisableDict}

Patterns == {"pred:*", "rate_limit:*", "*"}
Matches(pattern, k) ==
    \/ pattern = "*"
    \/ pattern = "pred:*" /\ k = PredKey
    \/ pattern = "rate_limit:*" /\ k = RateLimitKey

CacheExceptRaises(op) == Raise("Exception")

\* the except clauses of set_cache, get_cache, delete_cache, clear_cache_pattern
CacheExcept(op) ==
    IF op = "get_cache" THEN Return(PyNone)
    ELSE IF op = "clear_cache_pattern" THEN Return(PyInt(0))
    ELSE Return(PyBool(FALSE))

CacheFailed(call, step) == Finished(call, step, CacheExcept(call.op))

\* set_cache up to its await: get_redis, json.dumps
StartSetCache(p, k, v, ttl) ==
    /\ CanStart(p)
    /\ LET call == [NewCall("set_cache", "setex") EXCEPT !.key = k, !.ttl = ttl, !.arg = v,
                                                       !.given = v]
       IN  calls' = [calls EXCEPT ![p] =
                IF GetRedis.kind = "raise" THEN CacheFailed(call, "get_redis")
                ELSE IF v.type \in {"dict", "list"}
                     THEN IF JsonDumpsRaises(v) THEN CacheFailed(call, "json.dumps")
                          ELSE [call EXCEPT !.arg = JsonDumps(v)]
                     ELSE call]
    /\ UNCHANGED <<redis_client, initCache, store, store0, written, nonCacheVars>>

\* await client.setex(key, ttl_seconds, value); SETEX refuses a TTL that is not
\* positive
SetexCommand(p) ==
    /\ calls[p].op = "set_cache"
    /\ calls[p].pc = "setex"
    /\ \E ok \in BOOLEAN :
        IF ok /\ calls[p].ttl > 0
        THEN /\ store' = [store EXCEPT ![calls[p].key] =
                            [val |-> Encode(calls[p].arg), ttl |-> calls[p].ttl]]
             /\ written' = [written EXCEPT ![calls[p].key] = calls[p].given]
             /\ calls' = [calls EXCEPT ![p] = Finished(calls[p], "", Return(PyBool(TRUE)))]
        ELSE /\ store' = store
             /\ written' = written
             /\ calls' = [calls EXCEPT ![p] = CacheFailed(calls[p], "setex")]
    /\ UNCHANGED <<redis_client, initCache, store0, nonCacheVars>>

\* get_cache up to its await
StartGetCache(p, k) ==
    /\ CanStart(p)
    /\ LET call == [NewCall("get_cache", "get") EXCEPT !.key = k]
       IN  calls' = [calls EXCEPT ![p] =
                IF GetRedis.kind = "raise" THEN CacheFailed(call, "get_redis") ELSE call]
    /\ UNCHANGED <<redis_client, initCache, store, store0, written, nonCacheVars>>

\* value = await client.get(key), the miss, the JSON decoding
GetCommand(p) ==
    /\ calls[p].op = "get_cache"
    /\ calls[p].pc = "get"
    /\ \E ok \in BOOLEAN :
        calls' = [calls EXCEPT ![p] =
            IF ~ok THEN CacheFailed(calls[p], "get")
            ELSE IF ~Exists(calls[p].key) THEN Finished(calls[p], "", Return(PyNone))
            ELSE Finished(calls[p], "", Return(JsonLoads(store[calls[p].key].val)))]
    /\ UNCHANGED <<redis_client, initCache, store, store0, written, nonCacheVars>>

\* delete_cache up to its await
StartDeleteCache(p, k) ==
    /\ CanStart(p)
    /\ LET call == [NewCall("delete_cache", "delete") EXCEPT !.key = k]
       IN  calls' = [calls EXCEPT ![p] =
                IF GetRedis.kind = "raise" THEN CacheFailed(call, "get_redis") ELSE call]
    /\ UNCHANGED <<redis_client, initCache, store, store0, written, nonCacheVars>>

\* result = await client.delete(key); return result > 0
DeleteCommand(p) ==
    /\ calls[p].op = "delete_cache"
    /\ calls[p].pc = "delete"
    /\ \E ok \in BOOLEAN :
        IF ok
        THEN /\ store' = [store EXCEPT ![calls[p].key] = Missing]
             /\ calls' = [calls EXCEPT ![p] =
                    Finished(calls[p], "", Return(PyBool(Exists(calls[p].key))))]
        ELSE /\ store' = store
             /\ calls' = [calls EXCEPT ![p] = CacheFailed(calls[p], "delete")]
    /\ written' = LiveWritten(store')
    /\ UNCHANGED <<redis_client, initCache, store0, nonCacheVars>>

\* clear_cache_pattern up to its first await: cursor = 0, deleted = 0
StartClearPattern(p, pattern) ==
    /\ CanStart(p)
    /\ LET call == [NewCall("clear_cache_pattern", "scan") EXCEPT !.pattern = pattern]
       IN  calls' = [calls EXCEPT ![p] =
                IF GetRedis.kind = "raise" THEN CacheFailed(call, "get_redis") ELSE call]
    /\ UNCHANGED <<redis_client, initCache, store, store0, written, nonCacheVars>>

\* SCAN from a cursor: the store visits the next n slots and answers the keys in
\* them that exist and match, with the cursor to go on from, 0 after the last
ScanKeys(cursor, n, pattern) ==
    {KeySlots[i] : i \in {j \in (cursor + 1)..(cursor + n) :
                            Exists(KeySlots[j]) /\ Matches(pattern, KeySlots[j])}}
ScanCursor(cursor, n) == IF cursor + n = Len(KeySlots) THEN 0 ELSE cursor + n

\* if cursor == 0: break, else the next turn of the loop
ClearPatternLoop(call) ==
    IF call.cursor = 0
    THEN Finished(call, "", Return(PyInt(call.deleted)))
    ELSE [call EXCEPT !.pc = "scan", !.keys = {}]

\* cursor, keys = await client.scan(cursor, match=pattern)
ScanCommand(p) ==
    /\ calls[p].op = "clear_cache_pattern"
    /\ calls[p].pc = "scan"
    /\ \E ok \in BOOLEAN, n \in 1..(Len(KeySlots) - calls[p].cursor) :
        LET keys == ScanKeys(calls[p].cursor, n, calls[p].pattern)
            call == [calls[p] EXCEPT !.cursor = ScanCursor(calls[p].cursor, n),
                                     !.keys = keys]
        IN  calls' = [calls EXCEPT ![p] =
                IF ~ok THEN CacheFailed(calls[p], "scan")
                ELSE IF keys # {} THEN [call EXCEPT !.pc = "delete"]
                ELSE ClearPatternLoop(call)]
    /\ UNCHANGED <<redis_client, initCache, store, store0, written, nonCacheVars>>

\* deleted += await client.delete(*keys)
ScanDeleteCommand(p) ==
    /\ calls[p].op = "clear_cache_pattern"
    /\ calls[p].pc = "delete"
    /\ \E ok \in BOOLEAN :
        IF ok
        THEN /\ store' = [k \in Keys |-> IF k \in calls[p].keys THEN Missing ELSE store[k]]
             /\ calls' = [calls EXCEPT ![p] =
                    ClearPatternLoop([calls[p] EXCEPT !.deleted =
                        @ + Cardinality({k \in calls[p].keys : Exists(k)})])]
        ELSE /\ store' = store
             /\ calls' = [calls EXCEPT ![p] = CacheFailed(calls[p], "delete")]
    /\ written' = LiveWritten(store')
    /\ UNCHANGED <<redis_client, initCache, store0, nonCacheVars>>

(***************************************************************************)
(* database.py                                                             *)
(***************************************************************************)
SessionUsers == 1..MaxSessions

\* What the body under the yield, or a commit, can raise: subclasses of
\* Exception, and asyncio.CancelledError, which is a BaseException
ExceptionErrors == {"HandlerError", "SQLAlchemyError"}
BaseErrors == {"CancelledError"}
BodyErrors == {"HandlerError", "CancelledError"}
CommitErrors == {"SQLAlchemyError", "CancelledError"}

\* One use of get_db or get_db_context. txn is the state of the session's
\* transaction, log the calls made on the session in order ("caller_commit"
\* by the code under the yield; "commit", "rollback" and "close" by the
\* generator and by the exit of `async with`), error the exception in flight.
IdleSession ==
    [kind |-> "none", pc |-> "idle", session |-> FALSE, txn |-> "none",
     closed |-> FALSE, log |-> <<>>, error |-> "", result |-> NoResult]

CountOf(log, ev) == Cardinality({i \in DOMAIN log : log[i] = ev})

\* init_db: create_async_engine, then async_sessionmaker
InitDbStep(ok) ==
    IF ok
    THEN engine' = "open" /\ async_session_maker' = "maker"
    ELSE UNCHANGED <<engine, async_session_maker>>

\* close_db: disposes of the engine when there is one
CloseDbStep(ok) ==
    /\ engine' = IF engine # "None" /\ ok THEN "disposed" ELSE engine
    /\ UNCHANGED async_session_maker

\* the statement after the yield: get_db_context commits, get_db does not
AfterYieldAlwaysCommits(kind) == "commit"

AfterYield(kind) == IF kind = "get_db_context" THEN "commit" ELSE "finally"

\* `except Exception` catches the subclasses of Exception only
OnRaiseSkipsRollback(e) == "finally"

OnRaise(e) == IF e \in ExceptionErrors THEN "except" ELSE "finally"

\* entry up to the yield: the check of the global, the maker's session
EnterSession(r, kind) ==
    /\ sessions[r].pc \in {"idle", "done"}
    /\ sessions' = [sessions EXCEPT ![r] =
            IF async_session_maker = "None"
            THEN [IdleSession EXCEPT !.kind = kind, !.pc = "done",
                                     !.error = "RuntimeError",
                                     !.result = Raise("RuntimeError")]
            ELSE [IdleSession EXCEPT !.kind = kind, !.pc = "body",
                                     !.session = TRUE, !.txn = "active"]]
    /\ UNCHANGED <<engine, async_session_maker, nonDbVars>>

GetDb(r) == EnterSession(r, "get_db")

GetDbContext(r) == EnterSession(r, "get_db_context")

\* the code under the yield commits the session itself
BodyCommit(r) ==
    /\ sessions[r].pc = "body"
    /\ CountOf(sessions[r].log, "caller_commit") < MaxCommits
    /\ sessions' = [sessions EXCEPT ![r].log = Append(@, "caller_commit")]
    /\ UNCHANGED <<engine, async_session_maker, nonDbVars>>

\* the code under the yield ends, cleanly or with an exception thrown into
\* the generator at the yield
BodyExit(r) ==
    /\ sessions[r].pc = "body"
    /\ \E e \in {""} \cup BodyErrors :
        sessions' = [sessions EXCEPT
            ![r].error = e,
            ![r].pc = IF e = "" THEN AfterYield(sessions[r].kind) ELSE OnRaise(e)]
    /\ UNCHANGED <<engine, async_session_maker, nonDbVars>>

\* await session.commit() of get_db_context
SessionCommit(r) ==
    /\ sessions[r].pc = "commit"
    /\ \E e \in {""} \cup CommitErrors :
        sessions' = [sessions EXCEPT ![r] =
            IF e = ""
            THEN [sessions[r] EXCEPT !.txn = "committed",
                                     !.log = Append(sessions[r].log, "commit"),
                                     !.pc = "finally"]
            ELSE [sessions[r] EXCEPT !.error = e, !.pc = OnRaise(e)]]
    /\ UNCHANGED <<engine, async_session_maker, nonDbVars>>

\* except Exception: await session.rollback(), log, raise
SessionRollback(r) ==
    /\ sessions[r].pc = "except"
    /\ sessions' = [sessions EXCEPT ![r].txn = "rolled_back",
                                    ![r].log = Append(@, "rollback"),
                                    ![r].pc = "finally"]
    /\ UNCHANGED <<engine, async_session_maker, nonDbVars>>

\* finally: await session.close(), which discards a transaction still open
SessionClose(r) ==
    /\ sessions[r].pc = "finally"
    /\ sessions' = [sessions EXCEPT
            ![r].txn = IF @ = "active" THEN "rolled_back" ELSE @,
            ![r].closed = TRUE,
            ![r].log = Append(@, "close"),
            ![r].pc = "aexit"]
    /\ UNCHANGED <<engine, async_session_maker, nonDbVars>>

\* the exit of `async with` closes the session once more; the generator then
\* returns, or raises the exception in flight
SessionAExit(r) ==
    /\ sessions[r].pc = "aexit"
    /\ sessions' = [sessions EXCEPT
            ![r].log = Append(@, "close"),
            ![r].pc = "done",
            ![r].result = IF sessions[r].error = "" THEN Return(PyNone)
                          ELSE Raise(sessions[r].error)]
    /\ UNCHANGED <<engine, async_session_maker, nonDbVars>>

CheckExceptRaises(error) == Raise(error)

\* except Exception of check_db_connection: log, return False
CheckExcept(error) == Return(PyBool(FALSE))

\* check_db_connection up to the query: calling the global while it is None
\* is a TypeError, raised inside the try
CheckDbConnection(r) ==
    /\ sessions[r].pc \in {"idle", "done"}
    /\ sessions' = [sessions EXCEPT ![r] =
            IF async_session_maker = "None"
            THEN [IdleSession EXCEPT !.kind = "check_db_connection", !.pc = "done",
                                     !.error = "TypeError",
                                     !.result = CheckExcept("TypeError")]
            ELSE [IdleSession EXCEPT !.kind = "check_db_connection",
                                     !.pc = "execute",
                                     !.session = TRUE, !.txn = "active"]]
    /\ UNCHANGED <<engine, async_session_maker, nonDbVars>>

\* await session.execute("SELECT 1"): the statement runs, or execute raises
CheckExecute(r) ==
    /\ sessions[r].pc = "execute"
    /\ \E e \in {"", "SQLAlchemyError"} :
        sessions' = [sessions EXCEPT ![r].error = e,
                                     ![r].log = Append(@, "execute"),
                                     ![r].pc = "check_aexit"]
    /\ UNCHANGED <<engine, async_session_maker, nonDbVars>>

\* the exit of `async with` closes the session; then return True, or the
\* except clause
CheckReturn(r) ==
    /\ sessions[r].pc = "check_aexit"
    /\ sessions' = [sessions EXCEPT
            ![r].txn = "rolled_back",
            ![r].closed = TRUE,
            ![r].log = Append(@, "close"),
            ![r].pc = "done",
            ![r].result = IF sessions[r].error = "" THEN Return(PyBool(TRUE))
                          ELSE CheckExcept(sessions[r].error)]
    /\ UNCHANGED <<engine, async_session_maker, nonDbVars>>

InitDatabase ==
    /\ engine = "None"
    /\ async_session_maker = "None"
    /\ sessions = [r \in SessionUsers |-> IdleSession]

(***************************************************************************)
(* main.py                                                                 *)
(***************************************************************************)
\* The steps of startup in the order the module and lifespan run them
StartupSteps == <<"setup_logging", "init_db", "init_cache", "load_model">>

\* lifespan.pc is the step the process is at, lifespan.done the startup steps
\* that have completed, lifespan.error the step that raised, and
\* lifespan.raised whether the exception left the import or the lifespan.
Completed(step, pc) ==
    [lifespan EXCEPT !.done = Append(@, step), !.pc = pc]

\* an exception at the import of the module: nothing catches it
ImportFailed(step) ==
    [lifespan EXCEPT !.pc = "failed", !.error = step, !.raised = TRUE]

LifespanExceptSwallows(step) ==
    [lifespan EXCEPT !.pc = "serving", !.error = step]

\* except Exception in lifespan: log, raise; the yield is not reached
LifespanExcept(step) ==
    [lifespan EXCEPT !.pc = "failed", !.error = step, !.raised = TRUE]

\* setup_logging() at the import of main.py, before the app is created
SetupLogging ==
    /\ lifespan.pc = "setup_logging"
    /\ \E ok \in BOOLEAN :
        lifespan' = IF ok THEN Completed("setup_logging", "init_db")
                    ELSE ImportFailed("setup_logging")
    /\ UNCHANGED <<ormVars, cacheVars, dbVars, httpVars, schemaVars>>

\* await init_db()
InitDb ==
    /\ lifespan.pc = "init_db"
    /\ \E ok \in BOOLEAN :
        /\ InitDbStep(ok)
        /\ lifespan' = IF ok THEN Completed("init_db", "init_cache")
                       ELSE LifespanExcept("init_db")
    /\ UNCHANGED <<sessions, ormVars, cacheVars, httpVars, schemaVars>>

\* await init_cache(): lifespan goes on when init_cache has returned or raised
LifespanInitCache ==
    /\ lifespan.pc = "init_cache"
    /\ InitCacheFromUrlStep \/ InitCachePingStep
    /\ lifespan' = CASE initCache'.result = "ok" -> Completed("init_cache", "load_model")
                     [] initCache'.result = "raised" -> LifespanExcept("init_cache")
                     [] OTHER -> lifespan
    /\ UNCHANGED <<ormVars, dbVars, httpVars, schemaVars>>

\* model_registry.load_model(): returns when the artefacts are loaded, raises
\* when they cannot be
LoadModel ==
    /\ lifespan.pc = "load_model"
    /\ \E ok \in BOOLEAN :
        lifespan' = IF ok THEN Completed("load_model", "serving")
                    ELSE LifespanExcept("load_model")
    /\ UNCHANGED <<ormVars, cacheVars, dbVars, httpVars, schemaVars>>

\* the server resumes lifespan after the yield
Shutdown ==
    /\ lifespan.pc = "serving"
    /\ lifespan' = [lifespan EXCEPT !.pc = "close_db"]
    /\ UNCHANGED <<ormVars, cacheVars, dbVars, httpVars, schemaVars>>

\* await close_db()
CloseDb ==
    /\ lifespan.pc = "close_db"
    /\ \E ok \in BOOLEAN :
        /\ CloseDbStep(ok)
        /\ lifespan' = IF ok \/ engine = "None"
                       THEN [lifespan EXCEPT !.pc = "close_cache",
                                             !.closed = Append(@, "close_db")]
                       ELSE [lifespan EXCEPT !.pc = "stopped", !.error = "close_db",
                                             !.raised = TRUE]
    /\ UNCHANGED <<sessions, ormVars, cacheVars, httpVars, schemaVars>>

\* await close_cache()
LifespanCloseCache ==
    /\ lifespan.pc = "close_cache"
    /\ CloseCacheStep \/ (redis_client = "None" /\ UNCHANGED cacheVars)
    /\ lifespan' = [lifespan EXCEPT !.pc = "stopped",
                                    !.closed = Append(@, "close_cache")]
    /\ UNCHANGED <<ormVars, dbVars, httpVars, schemaVars>>

InitMain ==
    lifespan = [pc |-> "setup_logging", done |-> <<>>, closed |-> <<>>,
                error |-> "", raised |-> FALSE]

(***************************************************************************)
(* exceptions.py                                                           *)
(***************************************************************************)
\* An Optional[Dict] argument: None, or a dict given as its set of items
NoDetails == [none |-> TRUE, items |-> {}]
Details(items) == [none |-> FALSE, items |-> items]
DetailArgs == {NoDetails, Details({}), Details({<<"field", "amount">>})}

\* PayShieldException.__init__, cls the class of the instance; str(e) is the
\* message handed to Exception.__init__
PayShieldException(cls, message, error_code, status_code, details) ==
    [cls |-> cls, domain |-> TRUE, message |-> message, error_code |-> error_code,
     status_code |-> status_code,
     details |-> IF details.none \/ details.items = {} THEN {} ELSE details.items,
     text |-> message]

AuthenticationException(message, details) ==
    PayShieldException("AuthenticationException", message, "AUTHENTICATION_ERROR",
                       401, details)

AuthorizationException(message, details) ==
    PayShieldException("AuthorizationException", message, "AUTHORIZATION_ERROR",
                       403, details)

ValidationException(message, details) ==
    PayShieldException("ValidationException", message, "VALIDATION_ERROR", 422, details)

ResourceNotFoundException(resource_type, resource_id) ==
    PayShieldException("ResourceNotFoundException",
                       resource_type \o " with ID " \o resource_id \o " not found",
                       "RESOURCE_NOT_FOUND", 404,
                       Details({<<"resource_type", resource_type>>,
                                <<"resource_id", resource_id>>}))

RateLimitException(message) ==
    PayShieldException("RateLimitException", message, "RATE_LIMIT_EXCEEDED", 429,
                       NoDetails)

ModelNotReadyException(message) ==
    PayShieldException("ModelNotReadyException", message, "MODEL_NOT_READY", 503,
                       NoDetails)

PredictionException(message, details) ==
    PayShieldException("PredictionException", message, "PREDICTION_ERROR", 500, details)

DatabaseException(message, details) ==
    PayShieldException("DatabaseException", message, "DATABASE_ERROR", 500, details)

CacheException(message, details) ==
    PayShieldException("CacheException", message, "CACHE_ERROR", 500, details)

\* The domain errors a handler raises: every class, with its default message
\* where it has one and with a message of the caller's
Messages == {"rejected"}

DomainErrors ==
    {AuthenticationException(m, d) :
        m \in Messages \cup {"Authentication failed"}, d \in DetailArgs}
    \cup {AuthorizationException(m, d) :
        m \in Messages \cup {"Insufficient permissions"}, d \in DetailArgs}
    \cup {ValidationException(m, d) : m \in Messages, d \in DetailArgs}
    \cup {ResourceNotFoundException(t, i) : t \in {"Transaction"}, i \in {"42"}}
    \cup {RateLimitException(m) : m \in Messages \cup {"Rate limit exceeded"}}
    \cup {ModelNotReadyException(m) :
        m \in Messages \cup {"Model is not ready for predictions"}}
    \cup {PredictionException(m, d) : m \in Messages, d \in DetailArgs}
    \cup {DatabaseException(m, d) : m \in Messages, d \in DetailArgs}
    \cup {CacheException(m, d) : m \in Messages, d \in DetailArgs}

\* Errors that are no PayShieldException, with the text str(e) gives
UnexpectedErrors ==
    {[cls |-> c, domain |-> FALSE, message |-> "", error_code |-> "",
      status_code |-> 0, details |-> {}, text |-> t] :
        c \in {"ValueError"}, t \in {"secret: db password rejected"}}

NoError ==
    [cls |-> "", domain |-> FALSE, message |-> "", error_code |-> "",
     status_code |-> 0, details |-> {}, text |-> ""]

\* A response: status, JSON content, headers as a set of <<name, value>>
NoResponse ==
    [status_code |-> 0,
     content |-> [error |-> "", message |-> "", details |-> {}, request_id |-> ""],
     headers |-> {}]

JSONResponse(status_code, content) ==
    [status_code |-> status_code, content |-> content, headers |-> {}]

\* request.headers.get(name, default): headers map a name to None or a string
HeadersGet(headers, name, default) ==
    IF headers[name] = PyNone THEN default ELSE headers[name]

PayshieldExceptionHandlerGeneric(request, exc) ==
    JSONResponse(500, [error |-> "INTERNAL_ERROR",
                       message |-> "An unexpected error occurred",
                       details |-> {},
                       request_id |-> HeadersGet(request.headers, "X-Request-ID",
                                                 PyStr("unknown")).s])

\* payshield_exception_handler
PayshieldExceptionHandler(request, exc) ==
    JSONResponse(exc.status_code,
                 [error |-> exc.error_code,
                  message |-> exc.message,
                  details |-> exc.details,
                  request_id |-> HeadersGet(request.headers, "X-Request-ID",
                                            PyStr("unknown")).s])

GeneralExceptionHandlerLeaks(request, exc) ==
    JSONResponse(500, [error |-> "INTERNAL_ERROR",
                       message |-> exc.text,
                       details |-> {},
                       request_id |-> HeadersGet(request.headers, "X-Request-ID",
                                                 PyStr("unknown")).s])

\* general_exception_handler; its content has no details entry
GeneralExceptionHandler(request, exc) ==
    JSONResponse(500, [error |-> "INTERNAL_ERROR",
                       message |-> "An unexpected error occurred",
                       details |-> {},
                       request_id |-> HeadersGet(request.headers, "X-Request-ID",
                                                 PyStr("unknown")).s])

(***************************************************************************)
(* middleware.py, and the middleware stack main.py builds                  *)
(***************************************************************************)
REQUEST_ID_HEADER == "X-Request-ID"
CORRELATION_ID_HEADER == "X-Correlation-ID"
PROCESS_TIME_HEADER == "X-Process-Time"

\* Inbound values of an ID header: absent, empty, or given by the client
InboundIds == {PyNone, PyStr(""), PyStr("client-1")}
InboundHeaders == [{REQUEST_ID_HEADER, CORRELATION_ID_HEADER} -> InboundIds]

\* What str(uuid.uuid4()) can return
Uuids == {"uuid-a", "uuid-b"}

AddMiddlewareAppends(user_middleware, cls) == Append(user_middleware, cls)

\* Starlette's add_middleware puts the class in front of those added before
\* it: the class added last is the outermost
AddMiddleware(user_middleware, cls) == <<cls>> \o user_middleware

\* add_cors_middleware(app), then the two add_middleware calls of main.py
UserMiddleware ==
    AddMiddleware(
        AddMiddleware(
            AddMiddleware(<<>>, "CORSMiddleware"),
            "RequestLoggingMiddleware"),
        "RequestIdMiddleware")

\* response.headers[name] = value
SetHeader(response, name, value) ==
    [response EXCEPT !.headers =
        {h \in @ : h[1] # name} \cup {<<name, value>>}]

\* request.state before RequestIdMiddleware has written to it
EmptyState ==
    [set |-> FALSE, request_id |-> "", correlation_id |-> "", start_time |-> 0]

\* getattr(request.state, "request_id", "unknown")
StateRequestId(state) == IF state.set THEN state.request_id ELSE "unknown"

\* The request in flight. depth is the position in the middleware stack, 1 the
\* outermost and Len(UserMiddleware) + 1 the route handler; generated the
\* values uuid4 returned for this request, in order; raised the error the
\* handler raised; exc the exception on its way out; log the entries of
\* RequestLoggingMiddleware, each with whether getattr fell back to its
\* default.
IdleRequest ==
    [pc |-> "idle", depth |-> 0, preflight |-> FALSE,
     headers |-> [n \in {REQUEST_ID_HEADER, CORRELATION_ID_HEADER} |-> PyNone],
     state |-> EmptyState, generated |-> <<>>, now |-> 0,
     raised |-> NoError, exc |-> NoError, response |-> NoResponse,
     log |-> <<>>, reraised |-> FALSE]

At(cls, pc) ==
    /\ http.pc = pc
    /\ http.depth \in DOMAIN UserMiddleware
    /\ UserMiddleware[http.depth] = cls

LogEntry(event, error) ==
    [event |-> event, request_id |-> StateRequestId(http.state),
     fallback |-> ~http.state.set, error |-> error,
     status_code |-> IF event = "response" THEN http.response.status_code ELSE 0]

\* the server hands a request to the application
ReceiveRequest ==
    /\ http.pc \in {"idle", "done"}
    /\ \E headers \in InboundHeaders, preflight \in BOOLEAN :
        http' = [IdleRequest EXCEPT !.pc = "down", !.depth = 1,
                                    !.headers = headers, !.preflight = preflight]
    /\ UNCHANGED nonHttpVars

\* RequestIdMiddleware.dispatch up to call_next: an inbound ID is kept when it
\* is a non-empty string, otherwise uuid4 is called, once for each ID
CorrelationIdShared(headers, request_id, u) == <<request_id, <<>>>>

CorrelationId(headers, request_id, u) ==
    IF headers[CORRELATION_ID_HEADER] \in {PyNone, PyStr("")}
    THEN <<u, <<u>>>>
    ELSE <<headers[CORRELATION_ID_HEADER].s, <<>>>>

RequestId(headers, u) ==
    IF headers[REQUEST_ID_HEADER] \in {PyNone, PyStr("")}
    THEN <<u, <<u>>>>
    ELSE <<headers[REQUEST_ID_HEADER].s, <<>>>>

RequestIdDispatch ==
    /\ At("RequestIdMiddleware", "down")
    /\ \E u1, u2 \in Uuids :
        LET rid == RequestId(http.headers, u1)
            cid == CorrelationId(http.headers, rid[1], u2)
        IN  http' = [http EXCEPT
                !.state = [set |-> TRUE, request_id |-> rid[1],
                           correlation_id |-> cid[1], start_time |-> http.now],
                !.generated = @ \o rid[2] \o cid[2],
                !.depth = @ + 1]
    /\ UNCHANGED nonHttpVars

\* RequestIdMiddleware.dispatch after call_next: the three headers are set on
\* a response; an exception from call_next passes through
RequestIdReturn ==
    /\ At("RequestIdMiddleware", "up")
    /\ http' = [http EXCEPT
            !.response =
                IF http.exc # NoError THEN @
                ELSE SetHeader(
                        SetHeader(
                            SetHeader(@, REQUEST_ID_HEADER, http.state.request_id),
                            CORRELATION_ID_HEADER, http.state.correlation_id),
                        PROCESS_TIME_HEADER, ToString(http.now - http.state.start_time)),
            !.depth = @ - 1]
    /\ UNCHANGED nonHttpVars

\* RequestLoggingMiddleware.dispatch up to call_next: the request entry
RequestLoggingDispatch ==
    /\ At("RequestLoggingMiddleware", "down")
    /\ http' = [http EXCEPT !.log = Append(@, LogEntry("request", "")),
                            !.depth = @ + 1]
    /\ UNCHANGED nonHttpVars

\* RequestLoggingMiddleware.dispatch after call_next: the error entry and
\* raise, or the response entry
RequestLoggingReturn ==
    /\ At("RequestLoggingMiddleware", "up")
    /\ http' = [http EXCEPT
            !.log = Append(@, IF http.exc # NoError
                              THEN LogEntry("error", http.exc.text)
                              ELSE LogEntry("response", "")),
            !.depth = @ - 1]
    /\ UNCHANGED nonHttpVars

\* CORSMiddleware: answers a preflight request itself, passes the others on
CorsDispatch ==
    /\ At("CORSMiddleware", "down")
    /\ http' = IF http.preflight
               THEN [http EXCEPT !.pc = "up", !.depth = @ - 1,
                                 !.response = JSONResponse(200, NoResponse.content)]
               ELSE [http EXCEPT !.depth = @ + 1]
    /\ UNCHANGED nonHttpVars

CorsReturn ==
    /\ At("CORSMiddleware", "up")
    /\ http' = [http EXCEPT !.depth = @ - 1]
    /\ UNCHANGED nonHttpVars

\* Inside the user middleware: the route handler returns a response or
\* raises; a PayShieldException is rendered by its registered handler, any
\* other exception goes on outwards
Endpoint ==
    /\ http.pc = "down"
    /\ http.depth = Len(UserMiddleware) + 1
    /\ \E e \in {NoError} \cup DomainErrors \cup UnexpectedErrors,
          d \in 0..MaxElapsed :
        http' = [http EXCEPT
            !.pc = "up",
            !.depth = @ - 1,
            !.now = @ + d,
            !.raised = e,
            !.exc = IF e.domain \/ e = NoError THEN NoError ELSE e,
            !.response = IF e = NoError THEN JSONResponse(200, NoResponse.content)
                         ELSE IF e.domain THEN PayshieldExceptionHandler(http, e)
                         ELSE @]
    /\ UNCHANGED nonHttpVars

\* Outside the user middleware: the handler registered for Exception renders
\* an exception that came all the way out, which is then raised to the server
ServerError ==
    /\ http.pc = "up"
    /\ http.depth = 0
    /\ http' = [http EXCEPT
            !.pc = "done",
            !.response = IF http.exc # NoError
                         THEN GeneralExceptionHandler(http, http.exc) ELSE @,
            !.reraised = http.exc # NoError]
    /\ UNCHANGED nonHttpVars

InitHttp == http = IdleRequest


NextHttp ==
    \/ ReceiveRequest
    \/ RequestIdDispatch
    \/ RequestIdReturn
    \/ RequestLoggingDispatch
    \/ RequestLoggingReturn
    \/ CorsDispatch
    \/ CorsReturn
    \/ Endpoint
    \/ ServerError

(***************************************************************************)
(* schemas.py                                                              *)
(***************************************************************************)
\* Field(..., gt=0, le=1_000_000) and Field(..., min_length=8)
AMOUNT_GT == 0
AMOUNT_LE == 1000000
PASSWORD_MIN_LENGTH == 8

\* An amount in the request body: a number, held in hundredths, or one of
\* the floats that are no number, or text that is no float at all
Num(cents) == [kind |-> "num", cents |-> cents]
NotNum(kind) == [kind |-> kind, cents |-> 0]
Amounts ==
    {Num(c) : c \in {-100, -1, 0, 1, 100, 1250, AMOUNT_LE * 100 - 1, AMOUNT_LE * 100,
                     AMOUNT_LE * 100 + 1, AMOUNT_LE * 200}}
    \cup {NotNum(k) : k \in {"nan", "inf", "-inf", "text"}}

\* v > bound and v <= bound on floats: false for nan on either
FloatGt(v, bound) ==
    CASE v.kind = "num" -> v.cents > bound * 100
      [] v.kind = "inf" -> TRUE
      [] OTHER -> FALSE

FloatLe(v, bound) ==
    CASE v.kind = "num" -> v.cents <= bound * 100
      [] v.kind = "-inf" -> TRUE
      [] OTHER -> FALSE

AmountFieldAllowsZero(v) ==
    /\ v.kind # "text"
    /\ FloatGt(v, AMOUNT_GT) \/ v = Num(0)
    /\ FloatLe(v, AMOUNT_LE)

\* amount: float = Field(..., gt=0, le=1_000_000), of TransactionBase and of
\* PredictionRequest alike
AmountField(v) ==
    /\ v.kind # "text"
    /\ FloatGt(v, AMOUNT_GT)
    /\ FloatLe(v, AMOUNT_LE)

\* the lists inside validate_merchant_category and validate_country
ValidCategories ==
    {"retail", "food", "electronics", "travel", "luxury",
     "groceries", "gas", "utilities", "entertainment", "healthcare"}

ValidCountries ==
    {"US", "CA", "GB", "AU", "DE", "FR", "ES", "IT", "NL", "BE",
     "CH", "SE", "NO", "DK", "FI", "PL", "CZ", "AT", "GR", "PT"}

\* Values a body gives for merchant_category and country: None for an absent
\* or null field, else a string
CategoryInputs ==
    {PyNone} \cup {PyStr(c) : c \in ValidCategories \cup {"crypto", "Retail", ""}}
CountryInputs ==
    {PyNone} \cup {PyStr(c) : c \in {"US", "PT", "GR", "XX", "us", ""}}

\* a required str field
RequiredStr(v) == v.type = "str"

\* an Optional[str] field with no validator
OptionalStr(v) == v.type \in {"None", "str"}

\* PredictionRequest.validate_merchant_category, validate_country: they run
\* on a value that passed the field's type
ValidateMerchantCategory(v) == v.s \in ValidCategories

ValidateCountry(v) == v.s \in ValidCountries

\* Characters by what str.isupper and str.isdigit say of them
UpperChars == {"A"}
DigitChars == {"7"}
OtherChars == {"a", "!"}
Chars == UpperChars \cup DigitChars \cup OtherChars

IsUpper(c) == c \in UpperChars
IsDigit(c) == c \in DigitChars

RECURSIVE Repeat(_, _)
Repeat(c, n) == IF n = 0 THEN <<>> ELSE <<c>> \o Repeat(c, n - 1)

Passwords ==
    {core \o Repeat("a", n) :
        core \in UNION {[1..k -> Chars] : k \in 0..MaxCoreLen}, n \in 0..MaxPad}

\* password: str = Field(..., min_length=8)
PasswordField(v) == Len(v) >= PASSWORD_MIN_LENGTH

ValidatePasswordNoDigitCheck(v) == \E i \in DOMAIN v : IsUpper(v[i])

\* UserCreate.validate_password
ValidatePassword(v) ==
    /\ \E i \in DOMAIN v : IsUpper(v[i])
    /\ \E i \in DOMAIN v : IsDigit(v[i])

\* The body under validation and the verdict: errors holds the fields that
\* failed, and the body is accepted when none did
NoForm ==
    [schema |-> "none", amount |-> Num(0), merchant_category |-> PyNone,
     country |-> PyNone, password |-> <<>>, errors |-> {}, accepted |-> FALSE]

Verdict(schema, amount, category, country, password, errors) ==
    [schema |-> schema, amount |-> amount, merchant_category |-> category,
     country |-> country, password |-> password, errors |-> errors,
     accepted |-> errors = {}]

\* PredictionRequest(**body)
ValidatePredictionRequest ==
    /\ form = NoForm
    /\ \E a \in Amounts, c \in CategoryInputs, k \in CountryInputs :
        form' = Verdict("PredictionRequest", a, c, k, <<>>,
                    {f \in {"amount"} : ~AmountField(a)}
                    \cup {f \in {"merchant_category"} :
                            ~(RequiredStr(c) /\ ValidateMerchantCategory(c))}
                    \cup {f \in {"country"} :
                            ~(RequiredStr(k) /\ ValidateCountry(k))})
    /\ UNCHANGED nonSchemaVars

\* TransactionCreate(**body); merchant is given, the other fields are optional
ValidateTransactionCreate ==
    /\ form = NoForm
    /\ \E a \in Amounts, c \in CategoryInputs, k \in CountryInputs :
        form' = Verdict("TransactionCreate", a, c, k, <<>>,
                    {f \in {"amount"} : ~AmountField(a)}
                    \cup {f \in {"merchant_category"} : ~OptionalStr(c)}
                    \cup {f \in {"country"} : ~OptionalStr(k)})
    /\ UNCHANGED nonSchemaVars

\* UserCreate(**body); email is well-formed. The validator runs on a password
\* that passed min_length
ValidateUserCreate ==
    /\ form = NoForm
    /\ \E v \in Passwords :
        form' = Verdict("UserCreate", Num(0), PyNone, PyNone, v,
                    {f \in {"password"} : ~(PasswordField(v) /\ ValidatePassword(v))})
    /\ UNCHANGED nonSchemaVars

InitSchemas == form = NoForm

NextSchemas ==
    \/ ValidatePredictionRequest
    \/ ValidateTransactionCreate
    \/ ValidateUserCreate

InitCache ==
    /\ redis_client = "None"
    /\ initCache = [called |-> FALSE, pc |-> "idle", result |-> "none"]
    /\ store = [k \in Keys |-> Missing]
    /\ store0 = store
    /\ written = [k \in Keys |-> PyNone]
    /\ calls = [p \in Callers |-> IdleCall]

\* Counters left by earlier increments, with or without a TTL
CounterEntries ==
    {Missing} \cup {[val |-> ToString(n), ttl |-> t] :
                        n \in 1..(MaxCount - 1), t \in Ttls \cup {TtlNone}}

InitCounters ==
    /\ redis_client = "open"
    /\ initCache = [called |-> TRUE, pc |-> "idle", result |-> "ok"]
    /\ store \in [Keys -> CounterEntries]
    /\ \A k \in Keys \ CounterKeys : store[k] = Missing
    /\ store0 = store
    /\ written = [k \in Keys |-> PyNone]
    /\ calls = [p \in Callers |-> IdleCall]

InitOrm ==
    /\ users = {}
    /\ transactions = {}
    /\ alerts = {}
    /\ feedback = {}
    /\ audit_logs = {}
    /\ ormResult = [op |-> "none", ok |-> TRUE, children |-> 0]

NextOrm ==
    \/ CreateUser
    \/ CreateTransaction
    \/ CreateAlert
    \/ CreateFeedback
    \/ CreateAuditLog
    \/ \E u \in UserIds : DeleteUserOrm(u)
    \/ \E u \in UserIds : DeleteUserSql(u)
    \/ \E t \in TransactionIds : DeleteTransaction(t)
    \/ \E a \in alerts : DeleteAlert(a)

Init == InitOrm /\ InitCache /\ InitDatabase /\ InitMain /\ InitHttp /\ InitSchemas

SpecOrm == Init /\ [][NextOrm]_vars

\* Rate-limit counters in use: increments and the store's clock
NextCounter ==
    \/ Tick
    \/ \E p \in Callers, k \in CounterKeys, ttl \in Ttls \cup {NoTtl} :
            StartIncrement(p, k, ttl)
    \/ \E p \in Callers : IncrCommand(p)
    \/ \E p \in Callers : ExpireCommand(p)

\* the counters' callers run with or without an initialised client
InitCounter ==
    /\ InitOrm
    /\ InitDatabase
    /\ InitMain
    /\ InitHttp
    /\ InitSchemas
    /\ \/ InitCache
       \/ InitCounters /\ store = [k \in Keys |-> Missing]

SpecCounter == InitCounter /\ [][NextCounter]_vars

\* The cache in use: the client's life, the store's clock, and a caller of
\* get_redis, set_cache, get_cache, delete_cache and clear_cache_pattern. These
\* functions share nothing but the client and the store, so one caller's calls
\* in sequence are followed.
CacheCallers == {1}

NextCache ==
    \/ InitCacheFromUrl
    \/ InitCachePing
    \/ CloseCache
    \/ Tick
    \/ \E p \in CacheCallers : CallGetRedis(p)
    \/ \E p \in CacheCallers, k \in Keys, v \in CacheValues, ttl \in Ttls \cup {NoTtl} :
            StartSetCache(p, k, v, ttl)
    \/ \E p \in CacheCallers : SetexCommand(p)
    \/ \E p \in CacheCallers, k \in Keys : StartGetCache(p, k)
    \/ \E p \in CacheCallers : GetCommand(p)
    \/ \E p \in CacheCallers, k \in Keys : StartDeleteCache(p, k)
    \/ \E p \in CacheCallers : DeleteCommand(p)
    \/ \E p \in CacheCallers, pattern \in Patterns : StartClearPattern(p, pattern)
    \/ \E p \in CacheCallers : ScanCommand(p)
    \/ \E p \in CacheCallers : ScanDeleteCommand(p)

SpecCache == Init /\ [][NextCache]_vars

\* Callers that each make one increment_counter call, all in flight together
NextIncr ==
    \/ \E p \in Callers, k \in CounterKeys, ttl \in Ttls \cup {NoTtl} :
            calls[p].pc = "idle" /\ StartIncrement(p, k, ttl)
    \/ \E p \in Callers : IncrCommand(p)
    \/ \E p \in Callers : ExpireCommand(p)

InitIncr ==
    InitOrm /\ InitCounters /\ InitDatabase /\ InitMain /\ InitHttp /\ InitSchemas

SpecIncr == InitIncr /\ [][NextIncr]_vars

\* Rate limiting as its callers use it: every increment_counter call is given a
\* positive ttl_seconds, the calls interleave, and the store's clock runs
NextRateLimit ==
    \/ Tick
    \/ \E p \in Callers, k \in CounterKeys, ttl \in Ttls : StartIncrement(p, k, ttl)
    \/ \E p \in Callers : IncrCommand(p)
    \/ \E p \in Callers : ExpireCommand(p)

InitRateLimit ==
    /\ InitOrm
    /\ InitDatabase
    /\ InitMain
    /\ InitHttp
    /\ InitSchemas
    /\ InitCounters
    /\ store = [k \in Keys |-> Missing]

SpecRateLimit == InitRateLimit /\ [][NextRateLimit]_vars

\* The process from import to shutdown, with get_db and get_db_context in use
NextApp ==
    \/ SetupLogging
    \/ InitDb
    \/ LifespanInitCache
    \/ LoadModel
    \/ Shutdown
    \/ CloseDb
    \/ LifespanCloseCache
    \/ \E r \in SessionUsers : GetDb(r)
    \/ \E r \in SessionUsers : GetDbContext(r)
    \/ \E r \in SessionUsers : BodyCommit(r)
    \/ \E r \in SessionUsers : BodyExit(r)
    \/ \E r \in SessionUsers : SessionCommit(r)
    \/ \E r \in SessionUsers : SessionRollback(r)
    \/ \E r \in SessionUsers : SessionClose(r)
    \/ \E r \in SessionUsers : SessionAExit(r)
    \/ \E r \in SessionUsers : CheckDbConnection(r)
    \/ \E r \in SessionUsers : CheckExecute(r)
    \/ \E r \in SessionUsers : CheckReturn(r)

SpecApp == Init /\ [][NextApp]_vars

\* Requests served one after another through the middleware stack
SpecHttp == Init /\ [][NextHttp]_vars

\* A request body is validated: every body of the three schemas
SpecSchemas == Init /\ [][NextSchemas]_vars

(***************************************************************************)
(* C1: deleting a User never deletes an AuditLog row: every AuditLog row   *)
(* that referenced the user before the delete still exists afterwards,     *)
(* with user_id NULL.                                                      *)
(***************************************************************************)
C1_UserDeleteKeepsAuditLogs ==
    [][\A u \in users :
         u \notin users' =>
            \A l \in AuditLogsOf(u) :
                [l EXCEPT !.user_id = NULL] \in audit_logs']_vars

\* a user holding an audit row has been deleted through the unit of work
C1_Witness ==
    /\ ormResult.op = "delete_user"
    /\ ormResult.ok
    /\ ormResult.children > 0

(***************************************************************************)
(* C2: no Alert or Feedback row references a transaction that does not     *)
(* exist, after any sequence of creates and deletes.                       *)
(***************************************************************************)
C2_NoOrphanAlertOrFeedback ==
    /\ \A a \in alerts : a.transaction_id \in transactions
    /\ \A f \in feedback : f.transaction_id \in transactions

\* a transaction owning alerts or feedback has just been deleted
C2_Witness ==
    /\ ormResult.op = "delete_transaction"
    /\ ormResult.children = 2

(***************************************************************************)
(* C3: increment_counter sets the key's expiry only on the call that       *)
(* creates the counter (returned value 1); every later increment_counter   *)
(* call on the key, made before that expiry, leaves the remaining TTL      *)
(* unchanged.                                                              *)
(***************************************************************************)
C3_ExpiryOnlyOnFirstIncrement ==
    [][\A p \in Callers :
        LET c == calls[p]
            d == calls'[p]
            k == c.key
        IN  (c.op = "increment_counter" /\ d # c) =>
                \* only the call that created the counter goes on to EXPIRE
                /\ (c.pc = "incr" /\ d.pc = "expire") => (~Exists(k) /\ d.value = 1)
                \* an increment of a counter that exists keeps its TTL and is over
                /\ (c.pc = "incr" /\ Exists(k)) =>
                        (store'[k].ttl = store[k].ttl /\ d.pc = "done")
                \* the creating call's EXPIRE gives the key the TTL passed
                /\ (c.pc = "expire" /\ d.result.kind = "return") =>
                        (c.value = 1 /\ store'[k].ttl = c.ttl)]_vars

\* a later increment has returned 2 and the TTL set at creation has kept running
C3_Witness ==
    \E p \in Callers :
        /\ calls[p].op = "increment_counter"
        /\ calls[p].result = Return(PyInt(2))
        /\ store[RateLimitKey].val = "2"
        /\ store[RateLimitKey].ttl \in 1..(MaxTtl - 1)

(***************************************************************************)
(* C4: when N increment_counter calls on the same key run concurrently and *)
(* all succeed, the stored counter ends at its initial value plus N and    *)
(* the N returned values are pairwise distinct.                            *)
(***************************************************************************)
AllReturned == \A p \in Callers : calls[p].pc = "done" /\ calls[p].result.kind = "return"

InitialCount(k) == IF store0[k].ttl = TtlMissing THEN 0 ELSE IntOf(store0[k].val)

C4_NoLostUpdate ==
    AllReturned =>
        \A k \in CounterKeys :
            LET on == {p \in Callers : calls[p].op = "increment_counter"}
            IN  /\ Exists(k)
                /\ IsIntText(store[k].val)
                /\ IntOf(store[k].val) = InitialCount(k) + Cardinality(on)
                /\ \A p \in on, q \in on :
                        p # q => calls[p].result.val.n # calls[q].result.val.n

\* every caller's increment of a counter that began at 1 has returned
C4_Witness ==
    /\ AllReturned
    /\ \E k \in CounterKeys :
        /\ InitialCount(k) = 1
        /\ \A p \in Callers : calls[p].op = "increment_counter"

(***************************************************************************)
(* C5: any failure inside increment_counter (client not initialised, the   *)
(* increment failing, the expiry call failing) reaches the caller as a     *)
(* CacheException; increment_counter never returns a value after a failed  *)
(* step.                                                                   *)
(***************************************************************************)
C5_IncrementFailuresPropagate ==
    \A p \in Callers :
        (calls[p].op = "increment_counter" /\ calls[p].pc = "done") =>
            /\ calls[p].failed # "" => calls[p].result = Raise("CacheException")
            /\ calls[p].result.kind = "return" => calls[p].failed = ""

\* the three failures have each happened: no client, INCR failing, EXPIRE failing
C5_Witness ==
    \E p \in Callers :
        /\ calls[p].op = "increment_counter"
        /\ calls[p].failed = "expire"
        /\ calls[p].result = Raise("CacheException")
        /\ store[RateLimitKey].val = "1"


(***************************************************************************)
(* C6: set_cache, get_cache, delete_cache and clear_cache_pattern never    *)
(* raise to the caller, also when the client was never initialised: on any *)
(* failure set_cache returns False, get_cache None, delete_cache False and *)
(* clear_cache_pattern 0.                                                  *)
(***************************************************************************)
TolerantOps == {"set_cache", "get_cache", "delete_cache", "clear_cache_pattern"}

C6_CacheFailuresNeverRaise ==
    \A p \in Callers :
        (calls[p].op \in TolerantOps /\ calls[p].pc = "done") =>
            /\ calls[p].result.kind = "return"
            /\ calls[p].failed # "" =>
                calls[p].result.val =
                    CASE calls[p].op = "set_cache" -> PyBool(FALSE)
                      [] calls[p].op = "get_cache" -> PyNone
                      [] calls[p].op = "delete_cache" -> PyBool(FALSE)
                      [] calls[p].op = "clear_cache_pattern" -> PyInt(0)

\* clear_cache_pattern has answered 0 because its DEL failed after a SCAN
C6_Witness ==
    \E p \in Callers :
        /\ calls[p].op = "clear_cache_pattern"
        /\ calls[p].failed = "delete"
        /\ calls[p].result = Return(PyInt(0))

\* set_cache has answered False for want of a client
C6_WitnessNoClient ==
    \E p \in Callers :
        /\ calls[p].op = "set_cache"
        /\ calls[p].failed = "get_redis"
        /\ calls[p].result = Return(PyBool(FALSE))

(***************************************************************************)
(* C7: get_redis raises CacheException whenever it is called before        *)
(* init_cache has been called, and never returns a client in that state.   *)
(***************************************************************************)
C7_GetRedisBeforeInitRaises ==
    [][\A p \in Callers :
        (calls'[p] # calls[p] /\ CanStart(p) /\ ~initCache.called) =>
            /\ calls'[p].failed = "get_redis"
            /\ calls'[p].op = "get_redis" => calls'[p].result = Raise("CacheException")]_vars

\* get_redis has raised, init_cache never having been called
C7_Witness ==
    /\ ~initCache.called
    /\ \E p \in Callers :
        /\ calls[p].op = "get_redis"
        /\ calls[p].result = Raise("CacheException")


(***************************************************************************)
(* C8: in every use of get_db_context, a body that exits cleanly has its   *)
(* session committed exactly once and then closed; when the body or the    *)
(* commit raises, the session is rolled back, is not left committed by the *)
(* context, is closed, and the original error is raised again; the session *)
(* ends closed on every exit path.                                         *)
(***************************************************************************)
\* every ev in the log comes before every close in it, and there is one
BeforeClose(log, ev) ==
    /\ \E i \in DOMAIN log : log[i] = ev
    /\ \A i, j \in DOMAIN log : (log[i] = ev /\ log[j] = "close") => i < j

Ended(u) == u.pc = "done" /\ u.session

C8_WitnessClean ==
    \E r \in SessionUsers :
        /\ sessions[r].kind = "get_db_context"
        /\ sessions[r].pc = "done"
        /\ sessions[r].log = <<"commit", "close", "close">>
        /\ sessions[r].result = Return(PyNone)

StartupStepSet == {StartupSteps[i] : i \in DOMAIN StartupSteps}

C10_ServingOnlyAfterStartup ==
    /\ Len(lifespan.done) <= Len(StartupSteps)
    /\ lifespan.done = SubSeq(StartupSteps, 1, Len(lifespan.done))
    /\ lifespan.pc \in {"serving", "close_db", "close_cache", "stopped"} =>
            lifespan.done = StartupSteps
    /\ lifespan.pc = "serving" =>
            /\ lifespan.error = ""
            /\ ~lifespan.raised
            /\ engine = "open"
            /\ async_session_maker = "maker"
            /\ redis_client = "open"
            /\ initCache.result = "ok"
    /\ lifespan.error \in StartupStepSet =>
            /\ lifespan.pc = "failed"
            /\ lifespan.raised
            /\ lifespan.done = SubSeq(StartupSteps, 1, Len(lifespan.done))
            /\ StartupSteps[Len(lifespan.done) + 1] = lifespan.error

\* the application is serving, the four steps done
C10_Witness ==
    /\ lifespan.pc = "serving"
    /\ lifespan.done = StartupSteps

\* load_model has failed after the three steps before it, and startup raised
C10_WitnessFailed ==
    /\ lifespan.pc = "failed"
    /\ lifespan.error = "load_model"
    /\ lifespan.done = <<"setup_logging", "init_db", "init_cache">>
    /\ lifespan.raised

(***************************************************************************)
(* C11: on shutdown the cache connection is closed before the database     *)
(* connection is closed: when the engine is disposed of, the cache client  *)
(* has already been closed.                                                *)
(***************************************************************************)
C11_CacheClosedBeforeDatabase ==
    [][(engine # "disposed" /\ engine' = "disposed") => redis_client = "closed"]_vars

\* shutdown has run to its end: close_db first, close_cache second
C11_Witness ==
    /\ lifespan.pc = "stopped"
    /\ lifespan.closed = <<"close_db", "close_cache">>
    /\ engine = "disposed"
    /\ redis_client = "closed"

(***************************************************************************)
(* C12: RequestIdMiddleware runs outside RequestLoggingMiddleware: the     *)
(* request ID is on request.state before the logging middleware writes its *)
(* request entry, so every request, response and error entry carries the   *)
(* request's assigned ID and none the fallback "unknown".                  *)
(***************************************************************************)
C12_LogEntriesCarryRequestId ==
    /\ \E i, j \in DOMAIN UserMiddleware :
        /\ i < j
        /\ UserMiddleware[i] = "RequestIdMiddleware"
        /\ UserMiddleware[j] = "RequestLoggingMiddleware"
    /\ \A k \in DOMAIN http.log :
        /\ http.state.set
        /\ ~http.log[k].fallback
        /\ http.log[k].request_id = http.state.request_id

\* a request without an inbound ID has failed: a request and an error entry,
\* both with the generated ID
C12_Witness ==
    /\ http.pc = "done"
    /\ http.headers[REQUEST_ID_HEADER] = PyNone
    /\ Len(http.log) = 2
    /\ http.log[1].event = "request"
    /\ http.log[2].event = "error"
    /\ http.log[1].request_id \in Uuids
    /\ http.log[2].request_id = http.log[1].request_id

(***************************************************************************)
(* C13: a response that passes RequestIdMiddleware carries X-Request-ID,   *)
(* X-Correlation-ID and X-Process-Time; each ID header is the inbound      *)
(* value when the request gave a non-empty one, and otherwise an           *)
(* identifier generated for it, by a uuid4 call of its own.                *)
(***************************************************************************)
Supplied(name) == http.headers[name] \notin {PyNone, PyStr("")}

HeaderValuesOf(name) == {h[2] : h \in {x \in http.response.headers : x[1] = name}}

C13_ResponseCarriesIds ==
    (http.pc = "done" /\ http.exc = NoError) =>
        LET nRid == IF Supplied(REQUEST_ID_HEADER) THEN 0 ELSE 1
            nCid == IF Supplied(CORRELATION_ID_HEADER) THEN 0 ELSE 1
        IN  /\ Len(http.generated) = nRid + nCid
            /\ HeaderValuesOf(REQUEST_ID_HEADER) =
                    {IF nRid = 0 THEN http.headers[REQUEST_ID_HEADER].s
                     ELSE http.generated[1]}
            /\ HeaderValuesOf(CORRELATION_ID_HEADER) =
                    {IF nCid = 0 THEN http.headers[CORRELATION_ID_HEADER].s
                     ELSE http.generated[nRid + 1]}
            /\ Cardinality(HeaderValuesOf(PROCESS_TIME_HEADER)) = 1

\* neither ID came in: two identifiers were generated, and they differ here
C13_Witness ==
    /\ http.pc = "done"
    /\ http.exc = NoError
    /\ ~Supplied(REQUEST_ID_HEADER)
    /\ ~Supplied(CORRELATION_ID_HEADER)
    /\ <<REQUEST_ID_HEADER, "uuid-a">> \in http.response.headers
    /\ <<CORRELATION_ID_HEADER, "uuid-b">> \in http.response.headers

\* the request ID came in, the correlation ID was generated
C13_WitnessMixed ==
    /\ http.pc = "done"
    /\ <<REQUEST_ID_HEADER, "client-1">> \in http.response.headers
    /\ <<CORRELATION_ID_HEADER, "uuid-a">> \in http.response.headers
    /\ <<PROCESS_TIME_HEADER, "1">> \in http.response.headers

(***************************************************************************)
(* C14: an error of a handler that is no domain error gives a 500 response *)
(* whose message is exactly "An unexpected error occurred", with no text   *)
(* of the exception in it, and the logging middleware has written, before  *)
(* it raised the error again, an entry with the exception text and the     *)
(* request ID.                                                             *)
(***************************************************************************)
ErrorLogged ==
    \E k \in DOMAIN http.log :
        /\ http.log[k].event = "error"
        /\ http.log[k].error = http.raised.text
        /\ http.log[k].request_id = http.state.request_id
        /\ ~http.log[k].fallback

LoggingDepth ==
    CHOOSE i \in DOMAIN UserMiddleware : UserMiddleware[i] = "RequestLoggingMiddleware"

C14_UnexpectedErrorIsGeneric500 ==
    http.raised \in UnexpectedErrors =>
        /\ (http.pc = "up" /\ http.depth < LoggingDepth) => ErrorLogged
        /\ http.pc = "done" =>
            /\ ErrorLogged
            /\ http.reraised
            /\ http.response.status_code = 500
            /\ http.response.content.message = "An unexpected error occurred"
            /\ http.raised.text \notin
                    {http.response.content.message, http.response.content.error,
                     http.response.content.request_id}
            /\ http.response.content.details = {}

\* a ValueError has been answered with the generic 500 and logged
C14_Witness ==
    /\ http.pc = "done"
    /\ http.raised.cls = "ValueError"
    /\ http.response.status_code = 500
    /\ ErrorLogged

(***************************************************************************)
(* C15: for every kind of domain error the response of the domain handler  *)
(* has the kind's fixed status (Authentication 401, Authorization 403,     *)
(* Validation 422, ResourceNotFound 404, RateLimit 429, ModelNotReady 503, *)
(* Prediction 500, Database 500, Cache 500) and a payload whose error,     *)
(* message and details are the raised error's code, message and detail     *)
(* map, unmodified.                                                        *)
(***************************************************************************)
FixedStatus ==
    [c \in {"AuthenticationException", "AuthorizationException", "ValidationException",
            "ResourceNotFoundException", "RateLimitException", "ModelNotReadyException",
            "PredictionException", "DatabaseException", "CacheException"} |->
        CASE c = "AuthenticationException" -> 401
          [] c = "AuthorizationException" -> 403
          [] c = "ValidationException" -> 422
          [] c = "ResourceNotFoundException" -> 404
          [] c = "RateLimitException" -> 429
          [] c = "ModelNotReadyException" -> 503
          [] OTHER -> 500]

C15_DomainErrorsRenderedVerbatim ==
    /\ {e.cls : e \in DomainErrors} = DOMAIN FixedStatus
    /\ (http.raised.domain /\ http.pc \in {"up", "done"}) =>
        /\ http.response.status_code = FixedStatus[http.raised.cls]
        /\ http.response.content.error = http.raised.error_code
        /\ http.response.content.message = http.raised.message
        /\ http.response.content.details = http.raised.details

\* a ResourceNotFoundException has been rendered with its 404 and its details
C15_Witness ==
    /\ http.pc = "done"
    /\ http.raised.cls = "ResourceNotFoundException"
    /\ http.response.status_code = 404
    /\ http.response.content.message = "Transaction with ID 42 not found"
    /\ http.response.content.details =
            {<<"resource_type", "Transaction">>, <<"resource_id", "42">>}

(***************************************************************************)
(* C16: every prediction request and every transaction-creation request    *)
(* whose merchant_category is present and not one of the 10 fixed          *)
(* categories, or whose country is present and not one of the 20 fixed     *)
(* codes, is rejected by schema validation.                                *)
(***************************************************************************)
UnknownCategoryOrCountry ==
    \/ form.merchant_category # PyNone /\ form.merchant_category.s \notin ValidCategories
    \/ form.country # PyNone /\ form.country.s \notin ValidCountries

C16_UnknownCategoryOrCountryRejected ==
    /\ Cardinality(ValidCategories) = 10
    /\ Cardinality(ValidCountries) = 20
    /\ (form.schema \in {"PredictionRequest", "TransactionCreate"}
            /\ UnknownCategoryOrCountry) => ~form.accepted

\* a transaction-creation body with an unknown category has been accepted
C16_Witness ==
    /\ form.schema = "TransactionCreate"
    /\ form.merchant_category = PyStr("crypto")
    /\ form.amount = Num(1250)
    /\ form.accepted

(***************************************************************************)
(* C17: every prediction request and every transaction-creation request    *)
(* whose amount is outside (0, 1,000,000] is rejected by schema            *)
(* validation, and every amount inside the interval passes the amount      *)
(* check.                                                                  *)
(***************************************************************************)
InsideInterval(v) == v.kind = "num" /\ v.cents > 0 /\ v.cents <= 100000000

C17_WitnessRejected ==
    /\ form.schema = "TransactionCreate"
    /\ form.amount = Num(100000001)
    /\ form.errors = {"amount"}

(***************************************************************************)
(* C18: a user-creation request passes password validation if and only if  *)
(* the password has at least 8 characters, at least one uppercase letter   *)
(* and at least one digit; a password long enough that lacks an uppercase  *)
(* letter or a digit is rejected.                                          *)
(***************************************************************************)
HasUpper(v) == \E i \in 1..Len(v) : v[i] = "A"
HasDigit(v) == \E i \in 1..Len(v) : v[i] = "7"

C18_PasswordStrength ==
    form.schema = "UserCreate" =>
        /\ form.accepted <=>
            (Len(form.password) >= 8 /\ HasUpper(form.password) /\ HasDigit(form.password))
        /\ (Len(form.password) >= 8
                /\ ~(HasUpper(form.password) /\ HasDigit(form.password))) =>
            "password" \in form.errors

\* a password of nine characters with an uppercase letter and no digit has
\* been rejected
C18_Witness ==
    /\ form.schema = "UserCreate"
    /\ form.password = <<"A", "a", "a", "a", "a", "a", "a", "a", "a">>
    /\ form.errors = {"password"}

\* a password of eight characters with both has been accepted
C18_WitnessAccepted ==
    /\ form.schema = "UserCreate"
    /\ form.password = <<"A", "7", "a", "a", "a", "a", "a", "a">>
    /\ form.accepted

(***************************************************************************)
(* C19: check_db_connection always returns a boolean and never raises: it  *)
(* returns False on any failure of the round-trip query, also when it is   *)
(* called before init_db has made the session factory.                     *)
(***************************************************************************)
C19_CheckDbConnectionNeverRaises ==
    \A r \in SessionUsers :
        LET u == sessions[r] IN
        (u.kind = "check_db_connection" /\ u.pc = "done") =>
            /\ u.result.kind = "return"
            /\ u.result.val \in {PyBool(TRUE), PyBool(FALSE)}
            /\ u.error # "" => u.result = Return(PyBool(FALSE))
            /\ u.error = "" => u.result = Return(PyBool(TRUE))

\* called with no session factory: False, and no session was made
C19_Witness ==
    \E r \in SessionUsers :
        /\ sessions[r].kind = "check_db_connection"
        /\ sessions[r].pc = "done"
        /\ async_session_maker = "None"
        /\ ~sessions[r].session
        /\ sessions[r].result = Return(PyBool(FALSE))

\* the query raised: False, the session closed
C19_WitnessQueryFailed ==
    \E r \in SessionUsers :
        /\ sessions[r].kind = "check_db_connection"
        /\ sessions[r].error = "SQLAlchemyError"
        /\ sessions[r].log = <<"execute", "close">>
        /\ sessions[r].result = Return(PyBool(FALSE))

(***************************************************************************)
(* C20: every call of clear_cache_pattern scans on from the cursor the     *)
(* scan before returned until the store returns cursor 0, then stops, and  *)
(* the integer it returns is the number of keys the call removed from the  *)
(* store. The field deleted holds the sum of what DEL answered, which is   *)
(* the number of keys the call has removed.                                *)
(***************************************************************************)
C20_ClearPatternReturnsRemovedCount ==
    [][\A p \in Callers :
        (calls[p].op = "clear_cache_pattern" /\ calls[p].pc \in {"scan", "delete"}
                /\ calls'[p].pc = "done") =>
            /\ calls'[p].result = Return(PyInt(calls'[p].deleted))
            /\ calls'[p].failed = "" =>
                \/ calls[p].pc = "delete" /\ calls[p].cursor = 0
                \/ /\ calls[p].pc = "scan"
                   /\ \E n \in 1..(Len(KeySlots) - calls[p].cursor) :
                        /\ ScanCursor(calls[p].cursor, n) = 0
                        /\ ScanKeys(calls[p].cursor, n, calls[p].pattern) = {}]_vars

\* a key was removed, the next scan failed, and the call answered 0
C20_Witness ==
    \E p \in Callers :
        /\ calls[p].op = "clear_cache_pattern"
        /\ calls[p].pc = "done"
        /\ calls[p].failed = "scan"
        /\ calls[p].deleted = 1
        /\ calls[p].result = Return(PyInt(0))

(***************************************************************************)
(* C21: after any sequence of increment_counter calls with a positive ttl, *)
(* calls that fail part-way and calls of other callers in between          *)
(* included, every counter key that exists in the store carries an expiry. *)
(***************************************************************************)
NoCallInFlight == \A p \in Callers : calls[p].pc \in {"idle", "done"}

C21_CountersCarryExpiry ==
    NoCallInFlight =>
        \A k \in CounterKeys : Exists(k) => store[k].ttl # TtlNone

\* the creating call's EXPIRE has raised, a later call has counted on, and the
\* counter is in the store with no expiry
C21_Witness ==
    /\ NoCallInFlight
    /\ \E p, q \in Callers :
        /\ calls[p].op = "increment_counter"
        /\ calls[p].failed = "expire"
        /\ calls[q].result = Return(PyInt(2))
    /\ store[RateLimitKey] = [val |-> "2", ttl |-> TtlNone]

(***************************************************************************)
(* C22: for every request that ends in an error response, of the domain    *)
(* handler or of the catch-all handler, the request_id of the JSON payload *)
(* is the request ID RequestIdMiddleware assigned to the request and       *)
(* echoes in the X-Request-ID response header, also when the client sent   *)
(* no X-Request-ID header.                                                 *)
(***************************************************************************)
C22_ErrorPayloadCarriesRequestId ==
    (http.pc = "done" /\ http.raised # NoError) =>
        /\ http.state.set
        /\ http.response.content.request_id = http.state.request_id
        /\ HeaderValuesOf(REQUEST_ID_HEADER) = {http.state.request_id}

\* a request without X-Request-ID has ended in a domain error: the header
\* carries the generated ID, the payload the handler's default
C22_Witness ==
    /\ http.pc = "done"
    /\ http.raised \in DomainErrors
    /\ http.headers[REQUEST_ID_HEADER] = PyNone
    /\ http.state.request_id \in Uuids
    /\ HeaderValuesOf(REQUEST_ID_HEADER) = {http.state.request_id}
    /\ http.response.content.request_id = "unknown"

\* the catch-all handler's response has passed no middleware: it has no
\* X-Request-ID header, whatever the client sent
C22_WitnessCatchAll ==
    /\ http.pc = "done"
    /\ http.raised \in UnexpectedErrors
    /\ http.headers[REQUEST_ID_HEADER] = PyStr("client-1")
    /\ http.response.content.request_id = "client-1"
    /\ HeaderValuesOf(REQUEST_ID_HEADER) = {}

(***************************************************************************)
(* C23: get_redis returns a client only if the most recent init_cache call *)
(* completed with its connection test passed and close_cache has not been  *)
(* called since; after a failed init_cache or after close_cache it raises  *)
(* CacheException. Calls made while an init_cache call is still awaiting   *)
(* are left aside.                                                         *)
(***************************************************************************)
ClientUsable == initCache.result = "ok" /\ redis_client = "open"

C23_GetRedisOnlyUsableClient ==
    [][\A p \in Callers :
        (calls'[p] # calls[p] /\ calls'[p].op = "get_redis" /\ initCache.pc = "idle") =>
            calls'[p].result =
                IF ClientUsable THEN Return(PyRedis) ELSE Raise("CacheException")]_vars

\* a caller holds a client that get_redis returned, the connection test of
\* the one init_cache call has failed, and close_cache has closed the client
C23_Witness ==
    /\ initCache = [called |-> TRUE, pc |-> "idle", result |-> "raised"]
    /\ redis_client = "closed"
    /\ \E p \in Callers :
        /\ calls[p].op = "get_redis"
        /\ calls[p].result = Return(PyRedis)

(***************************************************************************)
(* C24: round trip: for every value v that set_cache accepts (a string, a  *)
(* number, a dict or a list), when set_cache(key, v) has returned True and *)
(* the entry has neither expired nor been deleted, get_cache(key) returns  *)
(* a value equal to v, of the same type as v.                              *)
(***************************************************************************)
C24_SetGetRoundTrip ==
    [][\A p \in Callers :
        LET k == calls[p].key
        IN  (/\ calls[p].op = "get_cache"
             /\ calls[p].pc = "get"
             /\ calls'[p].pc = "done"
             /\ calls'[p].failed = ""
             /\ written[k] # PyNone) =>
                calls'[p].result = Return(written[k])]_vars

\* set_cache has stored the str "1" under the prediction key, no second has
\* passed, and the get_cache that followed has returned the int 1
C24_Witness ==
    /\ written = [k \in Keys |-> IF k = PredKey THEN PyStr("1") ELSE PyNone]
    /\ store[PredKey] = [val |-> "1", ttl |-> MaxTtl]
    /\ \E p \in CacheCallers :
        /\ calls[p].op = "get_cache"
        /\ calls[p].failed = ""
        /\ calls[p].result = Return(PyInt(1))

\* a list has come back as it was given
C24_WitnessList ==
    /\ written = [k \in Keys |-> IF k = PredKey THEN PyList(ListText) ELSE PyNone]
    /\ store[PredKey] = [val |-> ListText, ttl |-> MaxTtl]
    /\ \E p \in CacheCallers :
        /\ calls[p].op = "get_cache"
        /\ calls[p].failed = ""
        /\ calls[p].result = Return(PyList(ListText))

====
